---- MODULE Spec2Model ----
(***************************************************************************)
(* A model of pypeflow/task.py: the task entity (PypeTaskBase and its      *)
(* thread-capable subclasses), the staleness decision (_getRunFlag,        *)
(* timeStampCompare) and the run protocol (__call__, run,                  *)
(* runInThisThread).                                                       *)
(*                                                                         *)
(* Data objects are files named by a pair <<"in", i>> or <<"out", i>>; a   *)
(* dictionary of data objects is modelled by the set of files it holds     *)
(* (the symbolic key of an entry identifies its object).  Python           *)
(* dictionaries are mutable objects reached through references, so the     *)
(* inputs and the parameters of a task are references (identities) into a  *)
(* table of dictionary contents.                                           *)
(***************************************************************************)
EXTENDS Integers, Sequences, FiniteSets, TLC

\* ------------------------------------------------------------------ bounds
\* Number of input files, output files, and the largest timestamp, of the
\* specification of timeStampCompare (SpecTS).
TSNumIn == 2
TSNumOut == 2
TSMaxTS == 2
\* The same for the specification of _getRunFlag (SpecFlag).
FlagNumIn == 1
FlagNumOut == 1
FlagMaxTS == 1
\* Number of input and output files of the run protocol (Spec), and the
\* number of messages the model lets the message queue hold.
NumIn == 1
NumOut == 2
MaxQueue == 4
\* Number of threads, each running a task of its own (SpecThreads).
NumThreads == 2
\* Number of data objects a construction may name as outputs (SpecCtor).
CtorNumOut == 2
\* Inputs, outputs and the last instant of the clock (SpecIdem).
IdemNumIn == 1
IdemNumOut == 1
IdemMaxTS == 2
\* Number of calls of _unique_name (SpecUniq).
UniqMaxCalls == 101
\* Inputs and outputs given to PypeScatteredTasks, and the largest chunk
\* count of a splittable object (SpecScatter).
ScatNumIn == 1
ScatNumOut == 1
ScatMaxChunk == 3
\* Lines of a manifest and characters of a line (SpecFofn).
FofnMaxLines == 2
FofnMaxLineLen == 2
\* Number of tasks constructed with PypeTask (SpecFp).
FpMaxTasks == 2
\* Calls of _unique_name each thread makes (SpecRace).
RaceMaxCalls == 2
\* Tasks built by applying configured constructors (SpecReuse).
ReuseMaxTasks == 4

\* ---------------------------------------------------------- program values
TaskInitialized == "TaskInitialized"
TaskDone == "done"
TaskFail == "fail"
None == "None"

\* ord('A') and ord('B'): the second component of the triples that
\* timeStampCompare compares.
TagA == 65
TagB == 66

Max2(a, b) == IF a >= b THEN a ELSE b
MaxN == Max2(TSNumIn, Max2(FlagNumIn, Max2(NumIn, IdemNumIn)))
MaxM == Max2(TSNumOut, Max2(FlagNumOut, Max2(NumOut, Max2(CtorNumOut, IdemNumOut))))

InFilesUpTo(n) == {<<"in", i>> : i \in 1..n}
OutFilesUpTo(n) == {<<"out", i>> : i \in 1..n}
Files == InFilesUpTo(MaxN) \cup OutFilesUpTo(MaxM)

Kinds == {"PypeTaskBase", "PypeThreadTaskBase", "PypeDistributiableTaskBase"}
ThreadKinds == {"PypeThreadTaskBase", "PypeDistributiableTaskBase"}
\* Identities of dictionary objects: the one given at construction and one
\* a computation body may create and bind to the task.
DictIds == {1, 2}
ParamKeys == {"a"}
\* Fingerprints: the empty one (the source of the computation could not be
\* read) and two digests.
Digests == {"", "md5a", "md5b"}
\* Compare predicates a task can be configured with: the default, the
\* predicate of the aggregation task of PypeFOFNMapTasks (always False),
\* and a user predicate that always holds.
CompareFns == {"timeStampCompare", "never", "always"}
URL == "task://test"

VARIABLES
    kind,               \* the class of the task
    _status,            \* self._status
    _queue,             \* self._queue: None, or the messages put so far
    _referenceMD5,      \* self._referenceMD5
    _codeMD5digest,     \* self._codeMD5digest
    _compareFunctions,  \* self._compareFunctions, a sequence of predicates
    inputDataObjs,      \* self.inputDataObjs: a reference to a dictionary
    outputDataObjs,     \* self.outputDataObjs: the set of output files
    parameters,         \* self.parameters: a reference to a dictionary
    inputDicts,         \* contents of the input dictionaries, by identity
    paramDicts,         \* contents of the parameter dictionaries, by identity
    exists,             \* o.exists of every file
    timeStamp,          \* o.timeStamp of every file
    pc,                 \* position of the one call in progress
    snapInputs,         \* run()'s local inputDataObjs
    snapParameters,     \* run()'s local parameters
    raised,             \* the exception the computation body raised, or None
    runExc,             \* the exception that escaped run(), or None
    mutated,            \* the body changed the inputs or the parameters map
    staleAtCall,        \* the staleness decision when run() was entered,
                        \* kept until the checks of run() after the body
    trapped,            \* the exception the except clause of __call__ caught
    rtn,                \* how the last call ended
    runFlag,            \* result of the last _getRunFlag call, if any
    flagTick,           \* flips at every _getRunFlag call
    tsFlag,             \* result of the last timeStampCompare call, if any
    tpc,                \* position of each thread that runs a task
    tstatus,            \* self._status of the task of each thread
    ctorArgs,           \* the arguments of a construction
    ctorRes,            \* what the construction gave: a task or an exception
    clock,              \* the time of the file system
    fresh,              \* the last run ended Done, wrote every declared
                        \* output, and no file changed since
    _auto_names,        \* the registry of the names _unique_name gave
    uniqCall,           \* the last call of _unique_name: <<name, result>>
    uniqLog,            \* the names requested and returned so far, and
                        \* the number of calls
    upc,                \* position of each thread inside _unique_name
    ulocal              \* the locals name and n of each thread inside
                        \* _unique_name, and the names it has obtained

vars == <<kind, _status, _queue, _referenceMD5, _codeMD5digest,
          _compareFunctions, inputDataObjs, outputDataObjs, parameters,
          inputDicts, paramDicts, exists, timeStamp, pc, snapInputs,
          snapParameters, raised, runExc, mutated, staleAtCall, trapped,
          rtn, runFlag, flagTick, tsFlag, tpc, tstatus, ctorArgs, ctorRes,
          clock, fresh, _auto_names, uniqCall, uniqLog, upc, ulocal>>

\* The variables the file system and the declared objects live in.
fsVars == <<inputDataObjs, outputDataObjs, inputDicts, exists, timeStamp>>
\* The variables of one call in progress.
callVars == <<pc, snapInputs, snapParameters, raised, runExc, mutated,
              staleAtCall, trapped, rtn>>

\* The variables of the tasks that run in threads of their own.
threadVars == <<tpc, tstatus>>
\* The variables of a construction.
ctorVars == <<ctorArgs, ctorRes>>
\* The variables of the passing of time.
idemVars == <<clock, fresh>>
\* The variables of _unique_name.
uniqVars == <<_auto_names, uniqCall, uniqLog>>
\* The variables of the threads inside _unique_name.
raceVars == <<upc, ulocal>>
\* The variables outside the single task and its files.
extVars == <<threadVars, ctorVars, idemVars, uniqVars, raceVars>>
\* The same, but for one group.
nonThreadVars == <<ctorVars, idemVars, uniqVars, raceVars>>
nonCtorVars == <<threadVars, idemVars, uniqVars, raceVars>>
nonIdemVars == <<threadVars, ctorVars, uniqVars, raceVars>>
nonUniqVars == <<threadVars, ctorVars, idemVars, raceVars>>

\* ------------------------------------------------------- timeStampCompare
\* Python's lexicographic order on the triples (timestamp, tag, object).
\* Only the first two components are modelled: a triple of an output and a
\* triple of an input differ in the tag, so minOut < maxIn never reaches
\* the object, and inside min() and max() the object only chooses among
\* triples of equal timestamp.
TupleLess(a, b) == a[1] < b[1] \/ (a[1] = b[1] /\ a[2] < b[2])

TupleMin(S) == CHOOSE a \in S : \A b \in S : a = b \/ TupleLess(a, b)
TupleMax(S) == CHOOSE a \in S : \A b \in S : a = b \/ TupleLess(b, a)

\* Mutants of timeStampCompare: a tie counts as stale; only the case that
\* every output is missing is flagged; a task without inputs is stale.
timeStampCompare_TieStale(ins, outs) ==
    LET inTS == {<<timeStamp[f], TagB>> : f \in ins}
        outTS == {<<timeStamp[f], TagA>> : f \in outs}
        runFlag0 == (\E f \in outs : ~exists[f]) \/ outs = {}
    IN  IF ~runFlag0 /\ ins # {}
        THEN TupleLess(TupleMin(outTS), TupleMax(inTS))
        ELSE runFlag0

timeStampCompare_AllMissing(ins, outs) ==
    LET inTS == {<<timeStamp[f], TagA>> : f \in ins}
        outTS == {<<timeStamp[f], TagB>> : f \in outs}
        runFlag0 == \A f \in outs : ~exists[f]
    IN  IF ~runFlag0 /\ ins # {} /\ outs # {}
        THEN TupleLess(TupleMin(outTS), TupleMax(inTS))
        ELSE runFlag0

timeStampCompare_EmptyInputsRun(ins, outs) ==
    LET inTS == {<<timeStamp[f], TagA>> : f \in ins}
        outTS == {<<timeStamp[f], TagB>> : f \in outs}
        runFlag0 == (\E f \in outs : ~exists[f]) \/ outs = {}
    IN  IF ~runFlag0
        THEN ins = {} \/ TupleLess(TupleMin(outTS), TupleMax(inTS))
        ELSE runFlag0

\* timeStampCompare(inputDataObjs, outputDataObjs, parameters): the loop
\* over the outputs sets runFlag and breaks at the first output that does
\* not exist; an empty output dictionary sets runFlag; the timestamps are
\* compared only when runFlag is still false and there are inputs.
timeStampCompare(ins, outs) ==
    LET inputDataObjsTS == {<<timeStamp[f], TagA>> : f \in ins}
        outputDataObjsTS == {<<timeStamp[f], TagB>> : f \in outs}
        runFlag0 == (\E f \in outs : ~exists[f]) \/ outs = {}
    IN  IF ~runFlag0 /\ ins # {}
        THEN TupleLess(TupleMin(outputDataObjsTS), TupleMax(inputDataObjsTS))
        ELSE runFlag0

\* The file system states a specification starts from: every input file
\* exists, an output file exists or not, existing files carry any timestamp
\* up to maxTS; files outside `ins` and `outs` and files that do not exist
\* carry timestamp 0 (it is never read).
InitFiles(ins, outs, maxTS) ==
    \E its \in [ins -> 0..maxTS], ots \in [outs -> (-1)..maxTS] :
        /\ exists = [f \in Files |-> IF f \in ins THEN TRUE
                                    ELSE IF f \in outs THEN ots[f] >= 0
                                    ELSE FALSE]
        /\ timeStamp = [f \in Files |-> IF f \in ins THEN its[f]
                                       ELSE IF f \in outs /\ ots[f] >= 0 THEN ots[f]
                                       ELSE 0]

\* No thread runs a task.
NoThreads == tpc = << >> /\ tstatus = << >>

\* No construction is looked at.
NoCtor == ctorArgs = << >> /\ ctorRes = << >>

\* Time does not pass.
NoClock == clock = 0 /\ fresh = FALSE

\* _unique_name is not looked at.
NoNames ==
    /\ _auto_names = {}
    /\ uniqCall = << >>
    /\ uniqLog = [requested |-> {}, returned |-> {}, n |-> 0]

\* No thread is inside _unique_name.
NoRace == upc = << >> /\ ulocal = << >>

\* The part of a state that a specification of a pure function leaves at
\* its value after construction (PypeTaskBase.__init__).
InitCore ==
    /\ _status = TaskInitialized
    /\ _referenceMD5 = None
    /\ inputDataObjs = 1
    /\ parameters = 1
    /\ paramDicts = [d \in DictIds |-> {}]
    /\ pc = "idle"
    /\ snapInputs = 1
    /\ snapParameters = 1
    /\ raised = None
    /\ runExc = None
    /\ mutated = FALSE
    /\ staleAtCall = FALSE
    /\ trapped = None
    /\ rtn = <<"none", "">>
    /\ runFlag = << >>
    /\ flagTick = FALSE
    /\ tsFlag = << >>

\* The same, in a specification of a single task.
InitTask ==
    /\ InitCore
    /\ _queue = None
    /\ NoThreads
    /\ NoCtor
    /\ NoClock
    /\ NoNames
    /\ NoRace

InitTS ==
    /\ InitTask
    /\ kind = "PypeTaskBase"
    /\ _codeMD5digest = ""
    /\ _compareFunctions = <<"timeStampCompare">>
    /\ \E ins \in SUBSET InFilesUpTo(TSNumIn), outs \in SUBSET OutFilesUpTo(TSNumOut) :
         /\ inputDicts = [d \in DictIds |-> IF d = 1 THEN ins ELSE {}]
         /\ outputDataObjs = outs
         /\ InitFiles(ins, outs, TSMaxTS)

\* A direct call of timeStampCompare on the task's dictionaries, as in the
\* doctests of PypeTask.
TimeStampCompareCall ==
    /\ tsFlag = << >>
    /\ tsFlag' = <<timeStampCompare(inputDicts[inputDataObjs], outputDataObjs)>>
    /\ UNCHANGED <<kind, _status, _queue, _referenceMD5, _codeMD5digest,
                   _compareFunctions, parameters, paramDicts, runFlag,
                   flagTick>>
    /\ UNCHANGED fsVars
    /\ UNCHANGED callVars
    /\ UNCHANGED extVars

NextTS == TimeStampCompareCall

SpecTS == InitTS /\ [][NextTS]_vars

\* ------------------------------------------------ claims: timeStampCompare
TSIns == inputDicts[inputDataObjs]
TSOuts == outputDataObjs
AllOutputsExist == \A f \in TSOuts : exists[f]
MinOutTS == CHOOSE t \in {timeStamp[f] : f \in TSOuts} :
                \A f \in TSOuts : t <= timeStamp[f]
MaxInTS == CHOOSE t \in {timeStamp[f] : f \in TSIns} :
                \A f \in TSIns : t >= timeStamp[f]

\* C2 (as amended): with a non-empty input set and a non-empty output set
\* whose objects all exist, timeStampCompare returns true exactly when the
\* minimum output timestamp is strictly less than the maximum input
\* timestamp; when the two are equal the result is false.
C2_StrictlyOlder ==
    (tsFlag # << >> /\ TSIns # {} /\ TSOuts # {} /\ AllOutputsExist)
        => (tsFlag[1] <=> MinOutTS < MaxInTS)

\* C2 witness: a tie between the oldest output and the newest input has
\* been compared.
C2_Witness ==
    /\ tsFlag # << >> /\ TSIns # {} /\ TSOuts # {} /\ AllOutputsExist
    /\ Cardinality(TSIns) > 1 /\ Cardinality(TSOuts) > 1
    /\ MinOutTS = MaxInTS /\ tsFlag[1] = FALSE

\* C2 as stated: as above, but a tie counts as stale (the result is true
\* when the minimum output timestamp equals the maximum input timestamp).
C2_TieStale ==
    (tsFlag # << >> /\ TSIns # {} /\ TSOuts # {} /\ AllOutputsExist)
        => (tsFlag[1] <=> MinOutTS <= MaxInTS)

\* C3: timeStampCompare returns true whenever the output set is empty or
\* some output does not exist, whatever the inputs and the timestamps.
C3_MissingOutputStale ==
    (tsFlag # << >> /\ (TSOuts = {} \/ ~AllOutputsExist)) => tsFlag[1]

\* C3 witness: the comparison ran with one output present and one missing,
\* the present one newer than every input.
C3_Witness ==
    /\ tsFlag # << >> /\ TSIns # {}
    /\ \E f, g \in TSOuts : exists[f] /\ ~exists[g]
          /\ \A i \in TSIns : timeStamp[f] > timeStamp[i]
    /\ tsFlag[1]

\* C4: timeStampCompare returns false whenever the input set is empty and
\* the output set is non-empty with every output existing.
C4_NoInputsFresh ==
    (tsFlag # << >> /\ TSIns = {} /\ TSOuts # {} /\ AllOutputsExist)
        => ~tsFlag[1]

\* C4 witness: the comparison ran with no input and two existing outputs
\* of different timestamps.
C4_Witness ==
    /\ tsFlag # << >> /\ TSIns = {} /\ AllOutputsExist
    /\ \E f, g \in TSOuts : timeStamp[f] < timeStamp[g]
    /\ ~tsFlag[1]

\* ------------------------------------------------------------ _getRunFlag
\* f(self.inputDataObjs, self.outputDataObjs, self.parameters) for a
\* configured predicate f.
ApplyCompare(f) ==
    CASE f = "timeStampCompare" ->
            timeStampCompare(inputDicts[inputDataObjs], outputDataObjs)
      [] f = "never" -> FALSE
      [] f = "always" -> TRUE

\* Mutant of AnyCompare: the predicates are combined by "all".
AnyCompare_All == \A i \in DOMAIN _compareFunctions : ApplyCompare(_compareFunctions[i])

\* any([f(...) for f in self._compareFunctions])
AnyCompare == \E i \in DOMAIN _compareFunctions : ApplyCompare(_compareFunctions[i])

\* self._referenceMD5 is not None and self._referenceMD5 != self._codeMD5digest
CodeChanged == _referenceMD5 # None /\ _referenceMD5 # _codeMD5digest

\* Mutant of RunFlagValue: the task is always reported stale.
RunFlagValue_Always == TRUE

\* The value _getRunFlag returns in the current state.
RunFlagValue == IF CodeChanged THEN TRUE ELSE AnyCompare

\* self._referenceMD5 after _getRunFlag.
ReferenceAfterRunFlag == IF CodeChanged THEN _codeMD5digest ELSE _referenceMD5

\* setReferenceMD5(md5Str)
SetReferenceMD5(md5Str) ==
    /\ pc = "idle"
    /\ _referenceMD5' = md5Str
    /\ UNCHANGED <<kind, _status, _queue, _codeMD5digest, _compareFunctions,
                   parameters, paramDicts, runFlag, flagTick, tsFlag>>
    /\ UNCHANGED fsVars
    /\ UNCHANGED callVars
    /\ UNCHANGED extVars

\* _getRunFlag(), also reached through isSatisfied(); not called while the
\* task is running.
GetRunFlag ==
    /\ pc = "idle"
    /\ runFlag' = <<RunFlagValue>>
    /\ _referenceMD5' = ReferenceAfterRunFlag
    /\ flagTick' = ~flagTick
    /\ UNCHANGED <<kind, _status, _queue, _codeMD5digest, _compareFunctions,
                   parameters, paramDicts, tsFlag>>
    /\ UNCHANGED fsVars
    /\ UNCHANGED callVars
    /\ UNCHANGED extVars

CompareSeqs == {<< >>} \cup {<<f>> : f \in CompareFns}
                  \cup {<<f, g>> : f \in CompareFns, g \in CompareFns}

InitFlag ==
    /\ InitTask
    /\ kind = "PypeTaskBase"
    /\ _codeMD5digest \in {"", "md5a"}
    /\ _compareFunctions \in CompareSeqs
    /\ \E ins \in SUBSET InFilesUpTo(FlagNumIn), outs \in SUBSET OutFilesUpTo(FlagNumOut) :
         /\ inputDicts = [d \in DictIds |-> IF d = 1 THEN ins ELSE {}]
         /\ outputDataObjs = outs
         /\ InitFiles(ins, outs, FlagMaxTS)

NextFlag ==
    \/ \E md5Str \in Digests : SetReferenceMD5(md5Str)
    \/ GetRunFlag

SpecFlag == InitFlag /\ [][NextFlag]_vars

\* ----------------------------------------------------- claims: _getRunFlag
PredHolds(f) == f = "always" \/ (f = "timeStampCompare" /\ timeStampCompare(TSIns, TSOuts))
OrOfPredicates == \E i \in 1..Len(_compareFunctions) : PredHolds(_compareFunctions[i])
Drift == _referenceMD5 # None /\ _referenceMD5 # _codeMD5digest

\* C5: every _getRunFlag call returns the OR of the configured predicates,
\* except that it returns true when a reference fingerprint is set and
\* differs from the code fingerprint; that call sets the reference to the
\* code fingerprint, every other call leaves it, so after any call no
\* difference is left and the next call returns the OR of the predicates.
C5_RunFlagIsOrUnlessDrift ==
    [][flagTick' # flagTick =>
         /\ runFlag' = <<Drift \/ OrOfPredicates>>
         /\ _referenceMD5' = (IF Drift THEN _codeMD5digest ELSE _referenceMD5)
         /\ ~Drift']_vars

\* C5 witness: a call has returned true with every predicate false, and
\* the reference now equals the code fingerprint.
C5_Witness ==
    /\ runFlag = <<TRUE>> /\ ~OrOfPredicates
    /\ Len(_compareFunctions) = 2
    /\ _referenceMD5 = _codeMD5digest

\* ----------------------------------------------------------- run protocol
Started == "started, runflag: 1"

\* setMessageQueue(q) of PypeThreadTaskBase, q the queue of the controller.
SetMessageQueue ==
    /\ pc = "idle"
    /\ kind \in ThreadKinds
    /\ _queue = None
    /\ _queue' = << >>
    /\ UNCHANGED <<kind, _status, _referenceMD5, _codeMD5digest,
                   _compareFunctions, parameters, paramDicts, runFlag,
                   flagTick, tsFlag>>
    /\ UNCHANGED fsVars
    /\ UNCHANGED callVars
    /\ UNCHANGED extVars

\* runInThisThread puts the "started" message when a queue is attached.
QueueAtStart ==
    IF kind \in ThreadKinds /\ _queue # None
    THEN Append(_queue, <<URL, Started>>)
    ELSE _queue

\* __call__ enters run() (through runInThisThread for a thread-capable
\* task): run() binds its locals inputDataObjs and parameters to the
\* task's dictionaries and is about to call _runTask.  run() does not
\* consult _getRunFlag; staleAtCall records what it would have returned.
Call ==
    /\ pc = "idle"
    /\ _queue # None => Len(_queue) + 2 <= MaxQueue
    /\ _queue' = QueueAtStart
    /\ snapInputs' = inputDataObjs
    /\ snapParameters' = parameters
    /\ staleAtCall' = RunFlagValue
    /\ raised' = None
    /\ runExc' = None
    /\ mutated' = FALSE
    /\ trapped' = None
    /\ rtn' = <<"none", "">>
    /\ pc' = "taskFun"
    /\ UNCHANGED <<kind, _status, _referenceMD5, _codeMD5digest,
                   _compareFunctions, parameters, paramDicts, runFlag,
                   flagTick, tsFlag>>
    /\ UNCHANGED fsVars
    /\ UNCHANGED extVars

OtherDict(d) == CHOOSE e \in DictIds : e # d

\* The computation body _taskFun, called by _runTask: it writes the files
\* `created` among the declared outputs, may change the parameters or the
\* inputs of the task, and returns or raises `exc`.  A change is made in
\* place (an entry of the dictionary is added or removed) or by binding
\* the attribute of the task to another dictionary of content c.
TaskFun(created, effect, c, exc) ==
    /\ pc = "taskFun"
    /\ exists' = [f \in Files |-> exists[f] \/ f \in created]
    /\ CASE effect = "none" ->
              /\ mutated' = FALSE
              /\ UNCHANGED <<parameters, paramDicts, inputDataObjs, inputDicts>>
         [] effect = "parameters in place" ->
              /\ c \subseteq ParamKeys /\ c # paramDicts[parameters]
              /\ paramDicts' = [paramDicts EXCEPT ![parameters] = c]
              /\ mutated' = TRUE
              /\ UNCHANGED <<parameters, inputDataObjs, inputDicts>>
         [] effect = "parameters rebound" ->
              /\ c \subseteq ParamKeys
              /\ parameters' = OtherDict(parameters)
              /\ paramDicts' = [paramDicts EXCEPT ![OtherDict(parameters)] = c]
              /\ mutated' = (c # paramDicts[parameters])
              /\ UNCHANGED <<inputDataObjs, inputDicts>>
         [] effect = "inputs in place" ->
              /\ c \subseteq InFilesUpTo(NumIn) /\ c # inputDicts[inputDataObjs]
              /\ inputDicts' = [inputDicts EXCEPT ![inputDataObjs] = c]
              /\ mutated' = TRUE
              /\ UNCHANGED <<parameters, paramDicts, inputDataObjs>>
         [] effect = "inputs rebound" ->
              /\ c \subseteq InFilesUpTo(NumIn)
              /\ inputDataObjs' = OtherDict(inputDataObjs)
              /\ inputDicts' = [inputDicts EXCEPT ![OtherDict(inputDataObjs)] = c]
              /\ mutated' = (c # inputDicts[inputDataObjs])
              /\ UNCHANGED <<parameters, paramDicts>>
    /\ raised' = exc
    /\ pc' = "check"
    /\ UNCHANGED <<kind, _status, _queue, _referenceMD5, _codeMD5digest,
                   _compareFunctions, outputDataObjs, timeStamp, snapInputs,
                   snapParameters, runExc, staleAtCall, trapped, rtn,
                   runFlag, flagTick, tsFlag>>
    /\ UNCHANGED extVars

\* self.inputDataObjs != inputDataObjs or self.parameters != parameters:
\* the locals of run() hold the dictionaries the task had at entry (the
\* same objects, not copies), and != compares contents.
InputsOrParametersChanged ==
    \/ inputDicts[inputDataObjs] # inputDicts[snapInputs]
    \/ paramDicts[parameters] # paramDicts[snapParameters]

\* missing = [(k,o) for (k,o) in self.outputDataObjs.iteritems() if not o.exists]
Missing == {o \in outputDataObjs : ~exists[o]}

\* The exception that escapes run(): the one the body raised, or
\* TaskFunctionError.
RunException ==
    IF raised # None THEN raised
    ELSE IF InputsOrParametersChanged THEN "TaskFunctionError"
    ELSE None

\* Mutant of StatusAfterRun: a guard keeps Done once it is reached.
StatusAfterRun_DoneKept ==
    IF RunException # None \/ _status = TaskDone THEN _status
    ELSE IF Missing # {} THEN TaskFail ELSE TaskDone

\* Mutant of StatusAfterRun: a missing output is not recorded.
StatusAfterRun_AlwaysDone == IF RunException # None THEN _status ELSE TaskDone

\* self._status when run() is left.
StatusAfterRun ==
    IF RunException # None THEN _status
    ELSE IF Missing # {} THEN TaskFail ELSE TaskDone

\* The rest of run() after _runTask: the check of the inputs and the
\* parameters, the check of the outputs, the status.
RunEnd ==
    /\ pc = "check"
    /\ runExc' = RunException
    /\ _status' = StatusAfterRun
    /\ staleAtCall' = FALSE
    /\ pc' = "afterRun"
    /\ UNCHANGED <<kind, _queue, _referenceMD5, _codeMD5digest,
                   _compareFunctions, parameters, paramDicts, snapInputs,
                   snapParameters, raised, mutated, trapped, rtn, runFlag,
                   flagTick, tsFlag>>
    /\ UNCHANGED fsVars
    /\ UNCHANGED extVars

\* The exception that escapes the try block of __call__.  run() is the
\* try block of PypeTaskBase.__call__; runInThisThread, the try block of
\* PypeThreadTaskBase.__call__, raises Exception after run() when no queue
\* is attached.
Escaped ==
    IF kind \in ThreadKinds /\ _queue = None /\ runExc = None
    THEN "Exception"
    ELSE runExc

\* How __call__ ends.  PypeTaskBase.__call__ returns what run() returns;
\* PypeThreadTaskBase.__call__ returns what runInThisThread returns, which
\* has no return statement.  The except clause re-raises, but in
\* PypeThreadTaskBase it first calls self._queue.put, which raises
\* AttributeError when self._queue is None.
CallOutcome ==
    IF Escaped = None
    THEN IF kind \in ThreadKinds THEN <<"return", "None">> ELSE <<"return", "True">>
    ELSE IF kind \in ThreadKinds /\ _queue = None
         THEN <<"raise", "AttributeError">>
         ELSE <<"raise", Escaped>>

\* self._status when __call__ is left: the except clause sets TaskFail.
StatusAfterCall == IF Escaped = None THEN _status ELSE TaskFail

\* Mutant of QueueAfterCall: the except clause puts no message.
QueueAfterCall_SilentFailure ==
    IF kind \in ThreadKinds /\ _queue # None /\ Escaped = None
    THEN Append(_queue, <<URL, _status>>)
    ELSE _queue

\* self._queue when __call__ is left: runInThisThread puts
\* (self.URL, self._status) after run(), the except clause puts
\* (self.URL, TaskFail).
QueueAfterCall ==
    IF kind \in ThreadKinds /\ _queue # None
    THEN IF Escaped = None
         THEN Append(_queue, <<URL, _status>>)
         ELSE Append(_queue, <<URL, TaskFail>>)
    ELSE _queue

\* The rest of __call__ after run(): the end of runInThisThread and the
\* except clause.  The locals of run() are gone; a dictionary no attribute
\* refers to any more is dropped, and the identities are renamed so that
\* the dictionaries of the task are again number 1 (an identity carries no
\* information but equality).
CallEnd ==
    /\ pc = "afterRun"
    /\ trapped' = Escaped
    /\ rtn' = CallOutcome
    /\ _status' = StatusAfterCall
    /\ _queue' = QueueAfterCall
    /\ inputDataObjs' = 1
    /\ parameters' = 1
    /\ snapInputs' = 1
    /\ snapParameters' = 1
    /\ inputDicts' = [d \in DictIds |-> IF d = 1 THEN inputDicts[inputDataObjs] ELSE {}]
    /\ paramDicts' = [d \in DictIds |-> IF d = 1 THEN paramDicts[parameters] ELSE {}]
    /\ pc' = "idle"
    /\ UNCHANGED <<kind, _referenceMD5, _codeMD5digest, _compareFunctions,
                   outputDataObjs, exists, timeStamp, raised, runExc,
                   mutated, staleAtCall, runFlag, flagTick, tsFlag>>
    /\ UNCHANGED extVars

\* The environment removes an output file, at any moment.
RemoveOutput(f) ==
    /\ f \in outputDataObjs
    /\ exists[f]
    /\ exists' = [exists EXCEPT ![f] = FALSE]
    /\ UNCHANGED <<kind, _status, _queue, _referenceMD5, _codeMD5digest,
                   _compareFunctions, inputDataObjs, outputDataObjs,
                   parameters, inputDicts, paramDicts, timeStamp, runFlag,
                   flagTick, tsFlag>>
    /\ UNCHANGED callVars
    /\ UNCHANGED extVars

Effects == {"none", "parameters in place", "parameters rebound",
            "inputs in place", "inputs rebound"}

Init ==
    /\ InitTask
    /\ kind \in Kinds
    /\ _codeMD5digest = ""
    /\ _compareFunctions = <<"timeStampCompare">>
    /\ \E n \in 0..NumIn, m \in 0..NumOut :
         /\ inputDicts = [d \in DictIds |-> IF d = 1 THEN InFilesUpTo(n) ELSE {}]
         /\ outputDataObjs = OutFilesUpTo(m)
         /\ InitFiles(InFilesUpTo(n), OutFilesUpTo(m), 0)

Next ==
    \/ SetMessageQueue
    \/ Call
    \/ \E created \in SUBSET outputDataObjs, effect \in Effects,
          c \in SUBSET (ParamKeys \cup InFilesUpTo(NumIn)),
          exc \in {None, "BodyError"} :
            TaskFun(created, effect, c, exc)
    \/ RunEnd
    \/ CallEnd
    \/ \E f \in Files : RemoveOutput(f)

Spec == Init /\ [][Next]_vars

\* ---------------------------------------------------- claims: run protocol
CallEnded == pc = "idle" /\ rtn[1] # "none"
Returned == CallEnded /\ rtn[1] = "return"
QueueAttached == kind \in ThreadKinds /\ _queue # None

\* C1: when the computation body changed the parameters map or the inputs
\* map and returned, the call raises TaskFunctionError and does not leave
\* the status Done.  (Stated for the calls that re-raise what run() raised:
\* a local task, or a thread-capable task with a queue.)
C1_MutationRaises ==
    (CallEnded /\ mutated /\ raised = None
        /\ (kind = "PypeTaskBase" \/ QueueAttached))
        => (rtn = <<"raise", "TaskFunctionError">> /\ _status # TaskDone)

\* C6: the computation is invoked only when the task is stale: the body
\* has run only in calls entered with the staleness decision true.
C6_InvokedOnlyWhenStale == pc = "check" => staleAtCall

\* C7: whenever run() returns normally, the status it leaves is Done if
\* every declared output exists at that moment and Fail if one is missing.
\* A missing output is not raised: run() raises only what the body raised
\* or after a change of the inputs or the parameters.
C7_StatusFromOutputs ==
    [][(pc = "check" /\ pc' = "afterRun") =>
         /\ runExc' = None =>
               _status' = (IF \A o \in outputDataObjs : exists[o]
                           THEN TaskDone ELSE TaskFail)
         /\ (raised = None /\ ~mutated) => runExc' = None]_vars

\* C7 witness: a call of a task with two outputs, one of them missing,
\* returned normally with status Fail.
C7_Witness ==
    /\ Returned /\ _status = TaskFail
    /\ \E f, g \in outputDataObjs : exists[f] /\ ~exists[g]

\* C8: a call that ends without raising returns True, for every kind of
\* task.
C8_CallReturnsTrue == Returned => rtn[2] = "True"

\* C9: when an exception escaped the run protocol, the status at the end of
\* the call is Fail and the call raises that same exception, for every
\* kind of task.
C9_SameExceptionReraised ==
    (CallEnded /\ trapped # None)
        => (_status = TaskFail /\ rtn = <<"raise", trapped>>)

\* The messages of the queue that carry a status (the final messages).
Finals(q) == {i \in 1..Len(q) : q[i][2] \in {TaskInitialized, TaskDone, TaskFail}}

\* C10: with a queue attached, the step that ends a call of a
\* thread-capable task puts exactly one final message, (URL, status), the
\* status being the one the task has at the end of the call, Done or Fail;
\* no other step puts a final message.
C10_OneFinalMessage ==
    [][QueueAttached =>
         IF pc = "afterRun" /\ pc' = "idle"
         THEN /\ _queue' = Append(_queue, <<URL, _status'>>)
              /\ _status' \in {TaskDone, TaskFail}
         ELSE Cardinality(Finals(_queue')) = Cardinality(Finals(_queue))]_vars

\* C10 witness: two calls with the queue attached have ended, the first
\* with status Done, the second by raising: the queue holds for each its
\* "started" message and one final message.
C10_Witness ==
    /\ QueueAttached /\ CallEnded /\ rtn[1] = "raise"
    /\ _queue = <<<<URL, Started>>, <<URL, TaskDone>>,
                  <<URL, Started>>, <<URL, TaskFail>>>>

\* C12: a call of a thread-capable task with no queue attached performs the
\* run protocol and returns normally, the status Done or Fail according to
\* the declared outputs.
C12_UsableWithoutQueue ==
    (CallEnded /\ kind \in ThreadKinds /\ _queue = None)
        => (rtn[1] = "return" /\ _status \in {TaskDone, TaskFail})

\* ------------------------------------------ tasks in threads, one queue
\* Several thread-capable tasks, each called in a thread of its own, all
\* with the same message queue attached (_queue is that queue).
Threads == 1..NumThreads
TaskURL(t) == <<"task", t>>

\* Mutant of ThreadQueueAtStart: the "started" message is not put.
ThreadQueueAtStart_Silent(t) == _queue

\* self._queue.put( (self.URL, "started, runflag: %d" % True) )
ThreadQueueAtStart(t) == Append(_queue, <<TaskURL(t), Started>>)

\* Thread t enters __call__ and runInThisThread of its task: the "started"
\* message is put, run() is about to call the computation.
ThreadStart(t) ==
    /\ tpc[t] = "idle"
    /\ Len(_queue) + 2 <= MaxQueue
    /\ _queue' = ThreadQueueAtStart(t)
    /\ tpc' = [tpc EXCEPT ![t] = "taskFun"]
    /\ UNCHANGED <<kind, _status, _referenceMD5, _codeMD5digest,
                   _compareFunctions, parameters, paramDicts, runFlag,
                   flagTick, tsFlag, tstatus>>
    /\ UNCHANGED fsVars
    /\ UNCHANGED callVars
    /\ UNCHANGED nonThreadVars

\* The computation of the task of thread t runs and run() ends: it raises,
\* or it sets the status Done or Fail (from the existence of the outputs).
ThreadRun(t, outcome) ==
    /\ tpc[t] = "taskFun"
    /\ IF outcome = "raise"
       THEN tpc' = [tpc EXCEPT ![t] = "except"] /\ UNCHANGED tstatus
       ELSE /\ tpc' = [tpc EXCEPT ![t] = "afterRun"]
            /\ tstatus' = [tstatus EXCEPT ![t] = outcome]
    /\ UNCHANGED <<kind, _status, _queue, _referenceMD5, _codeMD5digest,
                   _compareFunctions, parameters, paramDicts, runFlag,
                   flagTick, tsFlag>>
    /\ UNCHANGED fsVars
    /\ UNCHANGED callVars
    /\ UNCHANGED nonThreadVars

\* The end of the call in thread t: runInThisThread puts the final message
\* after run(); the except clause of __call__ sets TaskFail and puts it.
ThreadEnd(t) ==
    /\ tpc[t] \in {"afterRun", "except"}
    /\ tstatus' = [tstatus EXCEPT ![t] = IF tpc[t] = "except" THEN TaskFail ELSE @]
    /\ _queue' = Append(_queue, <<TaskURL(t), tstatus'[t]>>)
    /\ tpc' = [tpc EXCEPT ![t] = "idle"]
    /\ UNCHANGED <<kind, _status, _referenceMD5, _codeMD5digest,
                   _compareFunctions, parameters, paramDicts, runFlag,
                   flagTick, tsFlag>>
    /\ UNCHANGED fsVars
    /\ UNCHANGED callVars
    /\ UNCHANGED nonThreadVars

InitThreads ==
    /\ InitCore
    /\ kind = "PypeThreadTaskBase"
    /\ _codeMD5digest = ""
    /\ _compareFunctions = <<"timeStampCompare">>
    /\ inputDicts = [d \in DictIds |-> {}]
    /\ outputDataObjs = {}
    /\ InitFiles({}, {}, 0)
    /\ _queue = << >>
    /\ tpc = [t \in Threads |-> "idle"]
    /\ tstatus = [t \in Threads |-> TaskInitialized]
    /\ NoCtor
    /\ NoClock
    /\ NoNames
    /\ NoRace

NextThreads ==
    \E t \in Threads :
        \/ ThreadStart(t)
        \/ \E outcome \in {TaskDone, TaskFail, "raise"} : ThreadRun(t, outcome)
        \/ ThreadEnd(t)

SpecThreads == InitThreads /\ [][NextThreads]_vars

\* -------------------------------------------------- claims: message order
\* The messages of task t in the queue, in queue order.
MessagesOf(t) ==
    LET OfTask(m) == m[1] = TaskURL(t) IN SelectSeq(_queue, OfTask)

\* C11: in the queue the messages of each task alternate, "started" first
\* and then the final status message of that invocation, in every
\* interleaving of the threads; while an invocation is in progress (the
\* computation is about to run, runs or has run) its "started" message is
\* in the queue and its final message is not.
C11_StartedBeforeFinal ==
    \A t \in Threads :
        LET msgs == MessagesOf(t) IN
        /\ \A i \in 1..Len(msgs) :
              IF i % 2 = 1 THEN msgs[i][2] = Started
              ELSE msgs[i][2] \in {TaskDone, TaskFail}
        /\ (tpc[t] # "idle") <=> (Len(msgs) % 2 = 1)

\* C11 witness: the messages of two tasks are interleaved in the queue:
\* both started before either ended, and the one started last ended first.
C11_Witness ==
    /\ Len(_queue) = 4
    /\ _queue[1] = <<TaskURL(1), Started>> /\ _queue[2] = <<TaskURL(2), Started>>
    /\ _queue[3][1] = TaskURL(2) /\ _queue[4][1] = TaskURL(1)

\* ------------------------------------------------------------ construction
\* The arguments of a construction: the constructor used, the dictionaries
\* given as outputDataObjs and through the short cut "outputs" (key to
\* object), and the readOnly flag of every object.
CtorObjs == OutFilesUpTo(CtorNumOut)
CtorKeys == {"k1", "k2"}
CtorDicts == UNION {[D -> CtorObjs] : D \in SUBSET CtorKeys}
CtorArgSets ==
    [via : {"PypeTaskBase", "PypeTask"},
     outputDataObjs : CtorDicts,
     outputs : CtorDicts,
     readOnly : [CtorObjs -> BOOLEAN]]

\* dict.update: the entries of b replace those of a under the same key.
DictUpdate(a, b) ==
    [k \in DOMAIN a \cup DOMAIN b |-> IF k \in DOMAIN b THEN b[k] ELSE a[k]]

\* dict.values()
DictValues(d) == {d[k] : k \in DOMAIN d}

\* self.outputDataObjs when the read-only check is reached: the dictionary
\* given as outputDataObjs, updated with the short cut "outputs".  PypeTask
\* merges the two itself and passes the merged dictionary (and the short
\* cut again) to the constructor of the task class.
DeclaredOutputs(a) ==
    IF a.via = "PypeTask"
    THEN DictUpdate(DictUpdate(a.outputDataObjs, a.outputs), a.outputs)
    ELSE DictUpdate(a.outputDataObjs, a.outputs)

\* Mutant of ReadOnlyOutput: only the short cut "outputs" is checked.
ReadOnlyOutput_ShortCutOnly(a) ==
    \E o \in DictValues(a.outputs) : a.readOnly[o]

\* for o in self.outputDataObjs.values(): if o.readOnly is True: raise
ReadOnlyOutput(a) ==
    \E o \in DictValues(DeclaredOutputs(a)) : a.readOnly[o]

\* PypeTaskBase.__init__: the exception it raises, or the task it leaves.
NewTask(a) ==
    IF ReadOnlyOutput(a)
    THEN <<"raise", "PypeError">>
    ELSE <<"task", [_status |-> TaskInitialized,
                    outputDataObjs |-> DeclaredOutputs(a)]>>

Construct ==
    /\ ctorRes = << >>
    /\ ctorRes' = NewTask(ctorArgs)
    /\ UNCHANGED <<kind, _status, _queue, _referenceMD5, _codeMD5digest,
                   _compareFunctions, parameters, paramDicts, runFlag,
                   flagTick, tsFlag, ctorArgs>>
    /\ UNCHANGED fsVars
    /\ UNCHANGED callVars
    /\ UNCHANGED nonCtorVars

\* The state of the single task and of the files, where no task is looked
\* at.
NoTask ==
    /\ InitCore
    /\ _queue = None
    /\ kind = "PypeTaskBase"
    /\ _codeMD5digest = ""
    /\ _compareFunctions = <<"timeStampCompare">>
    /\ inputDicts = [d \in DictIds |-> {}]
    /\ outputDataObjs = {}
    /\ InitFiles({}, {}, 0)

InitCtor ==
    /\ NoTask
    /\ NoThreads
    /\ ctorArgs \in CtorArgSets
    /\ ctorRes = << >>
    /\ NoClock
    /\ NoNames
    /\ NoRace

NextCtor == Construct

SpecCtor == InitCtor /\ [][NextCtor]_vars

\* ----------------------------------------------------- claims: construction
\* C13: a construction whose declared outputs (given either way) include a
\* read-only object raises PypeError and gives no task; any other
\* construction gives a task with status Initialized.
C13_ReadOnlyOutputRejected ==
    LET given(k) == IF k \in DOMAIN ctorArgs.outputs
                    THEN <<ctorArgs.outputs[k]>>
                    ELSE IF k \in DOMAIN ctorArgs.outputDataObjs
                         THEN <<ctorArgs.outputDataObjs[k]>>
                         ELSE << >>
    IN  ctorRes # << >> =>
            IF \E k \in CtorKeys :
                   given(k) # << >> /\ ctorArgs.readOnly[given(k)[1]]
            THEN ctorRes = <<"raise", "PypeError">>
            ELSE ctorRes[1] = "task" /\ ctorRes[2]._status = TaskInitialized

\* C13 witness: a construction was refused whose only read-only output was
\* given as outputDataObjs, next to a writable one given by the short cut.
C13_Witness ==
    /\ ctorRes = <<"raise", "PypeError">>
    /\ ctorArgs.outputs # << >>
    /\ \A o \in DictValues(ctorArgs.outputs) : ~ctorArgs.readOnly[o]
    /\ \E k \in DOMAIN ctorArgs.outputDataObjs \ DOMAIN ctorArgs.outputs :
           ctorArgs.readOnly[ctorArgs.outputDataObjs[k]]

\* ---------------------------------------------------- staleness over time
\* The instants a write that starts at instant c can be stamped with.
Instants(c) == {t \in c..(c + 1) : t <= IdemMaxTS}

\* The latest of the instants S.
Latest(S) == CHOOSE t \in S : \A u \in S : u <= t

\* __call__ of a PypeTaskBase whose computation writes the files W at the
\* instants wts, not before the clock, and does nothing else: run() sets
\* the status from the outputs and returns True.
IdemRun(W, wts) ==
    /\ pc = "idle"
    /\ W \subseteq outputDataObjs
    /\ wts \in [W -> Instants(clock)]
    /\ exists' = [f \in Files |-> exists[f] \/ f \in W]
    /\ timeStamp' = [f \in Files |-> IF f \in W THEN wts[f] ELSE timeStamp[f]]
    /\ clock' = Latest({clock} \cup {wts[f] : f \in W})
    /\ _status' = IF \E o \in outputDataObjs : ~exists'[o] THEN TaskFail ELSE TaskDone
    /\ rtn' = <<"return", "True">>
    /\ fresh' = (_status' = TaskDone /\ W = outputDataObjs)
    /\ runFlag' = << >>
    /\ UNCHANGED <<kind, _queue, _referenceMD5, _codeMD5digest,
                   _compareFunctions, inputDataObjs, outputDataObjs,
                   parameters, inputDicts, paramDicts, flagTick, tsFlag,
                   pc, snapInputs, snapParameters, raised, runExc, mutated,
                   staleAtCall, trapped>>
    /\ UNCHANGED nonIdemVars

\* The environment modifies the input f, now or at the next instant.
TouchInput(f, t) ==
    /\ pc = "idle"
    /\ f \in inputDicts[inputDataObjs]
    /\ t \in Instants(clock)
    /\ timeStamp' = [timeStamp EXCEPT ![f] = t]
    /\ clock' = t
    /\ fresh' = FALSE
    /\ UNCHANGED <<kind, _status, _queue, _referenceMD5, _codeMD5digest,
                   _compareFunctions, inputDataObjs, outputDataObjs,
                   parameters, inputDicts, paramDicts, exists, runFlag,
                   flagTick, tsFlag>>
    /\ UNCHANGED callVars
    /\ UNCHANGED nonIdemVars

InitIdem ==
    /\ InitCore
    /\ _queue = None
    /\ NoThreads
    /\ NoCtor
    /\ clock = 0
    /\ fresh = FALSE
    /\ NoNames
    /\ NoRace
    /\ kind = "PypeTaskBase"
    /\ _codeMD5digest = "md5a"
    /\ _compareFunctions = <<"timeStampCompare">>
    /\ \E ins \in SUBSET InFilesUpTo(IdemNumIn), outs \in SUBSET OutFilesUpTo(IdemNumOut) :
         /\ inputDicts = [d \in DictIds |-> IF d = 1 THEN ins ELSE {}]
         /\ outputDataObjs = outs
         /\ InitFiles(ins, outs, 0)

NextIdem ==
    \/ \E W \in SUBSET OutFilesUpTo(IdemNumOut) :
         \E wts \in [W -> 0..IdemMaxTS] : IdemRun(W, wts)
    \/ \E f \in InFilesUpTo(IdemNumIn), t \in 0..IdemMaxTS : TouchInput(f, t)
    \/ \E md5Str \in Digests : SetReferenceMD5(md5Str)
    \/ GetRunFlag

SpecIdem == InitIdem /\ [][NextIdem]_vars

\* --------------------------------------------- claims: staleness over time
\* A step of _getRunFlag.
RunFlagStep == flagTick' # flagTick

\* An input carries a later timestamp than an output.
InputLaterThanOutput ==
    \E i \in inputDicts[inputDataObjs], o \in outputDataObjs :
        exists[o] /\ timeStamp[i] > timeStamp[o]

\* C14 as stated: after a run that ended Done and wrote every declared
\* output, with nothing changed since, _getRunFlag returns false; once an
\* input is later than an output it returns true.
C14_FreshAfterDone ==
    [][RunFlagStep =>
          /\ fresh => runFlag' = <<FALSE>>
          /\ InputLaterThanOutput => runFlag' = <<TRUE>>]_vars

\* C14, amended: the same for a task that declares at least one output and
\* has no reference fingerprint that differs from its code fingerprint.
C14_FreshAfterDoneWithOutputs ==
    [][RunFlagStep =>
          /\ (fresh /\ outputDataObjs # {} /\ ~CodeChanged) => runFlag' = <<FALSE>>
          /\ InputLaterThanOutput => runFlag' = <<TRUE>>]_vars

\* C14 witness: an input was modified, the run then wrote the output and
\* ended Done, and _getRunFlag returned false.
C14_Witness ==
    /\ fresh /\ _status = TaskDone /\ runFlag = <<FALSE>>
    /\ outputDataObjs # {}
    /\ \E i \in inputDicts[inputDataObjs] : timeStamp[i] > 0

\* ------------------------------------------------------------ _unique_name
\* A name is a sequence: the name without its suffixes, then one sequence
\* of decimal digits for each ".digits" suffix.  <<"taskFun", <<0, 1>>>> is
\* "taskFun.01".
\* The decimal digits of n, most significant first: '%d' % n.
RECURSIVE Decimal(_)
Decimal(n) == IF n < 10 THEN <<n>> ELSE Append(Decimal(n \div 10), n % 10)

\* Mutant of Format02: no padding.
Format02_Unpadded(n) == Decimal(n)

\* '%02d' % n: padded with zeros to at least two digits.
Format02(n) == IF Len(Decimal(n)) < 2 THEN <<0>> \o Decimal(n) ELSE Decimal(n)

\* try_name = '%s.%02d' % (name, n)
TryName(name, n) == Append(name, Format02(n))

\* The while loop of _unique_name, entered with the counter at n - 1: the
\* first try_name from n on that is not in the registry.
RECURSIVE Probe(_, _)
Probe(name, n) ==
    IF TryName(name, n) \notin _auto_names THEN TryName(name, n)
    ELSE Probe(name, n + 1)

\* The name _unique_name(name) returns.
UniqueName(name) == IF name \in _auto_names THEN Probe(name, 1) ELSE name

\* The names asked for: the name of the function PypeShellTask wraps, and
\* a name that looks like a generated one.
UniqRequests == {<<"taskFun">>, <<"taskFun", <<0, 1>>>>}

\* _unique_name(name)
UniqueNameCall(name) ==
    /\ uniqLog.n < UniqMaxCalls
    /\ _auto_names' = _auto_names \cup {UniqueName(name)}
    /\ uniqCall' = <<name, UniqueName(name)>>
    /\ uniqLog' = [requested |-> uniqLog.requested \cup {name},
                   returned |-> uniqLog.returned \cup {UniqueName(name)},
                   n |-> uniqLog.n + 1]
    /\ UNCHANGED <<kind, _status, _queue, _referenceMD5, _codeMD5digest,
                   _compareFunctions, parameters, paramDicts, runFlag,
                   flagTick, tsFlag>>
    /\ UNCHANGED fsVars
    /\ UNCHANGED callVars
    /\ UNCHANGED nonUniqVars

InitUniq ==
    /\ NoTask
    /\ NoThreads
    /\ NoCtor
    /\ NoClock
    /\ NoNames
    /\ NoRace

NextUniq == \E name \in UniqRequests : UniqueNameCall(name)

SpecUniq == InitUniq /\ [][NextUniq]_vars

\* ----------------------------------------------------- claims: _unique_name
\* A step of _unique_name.
UniqStep == uniqLog'.n # uniqLog.n

\* The number a sequence of decimal digits stands for.
RECURSIVE DigitsValue(_)
DigitsValue(d) ==
    IF d = << >> THEN 0
    ELSE 10 * DigitsValue(SubSeq(d, 1, Len(d) - 1)) + d[Len(d)]

\* Two digits; no such form above 99.
TwoDigits(n) == IF n <= 99 THEN <<n \div 10, n % 10>> ELSE << >>

\* At least two digits, and no zero in front of more than two.
PaddedDigits(n) ==
    CHOOSE d \in {SubSeq(<<0>> \o Decimal(n), i, Len(Decimal(n)) + 1) : i \in 1..2} :
        Len(d) >= 2 /\ (Len(d) > 2 => d[1] # 0)

\* The counter n written in a form, "two" or "padded".
Written(form, n) == IF form = "two" THEN TwoDigits(n) ELSE PaddedDigits(n)

\* name.d is the registry's first free one: d stands for a counter n >= 1,
\* name.d is not in the registry, and every smaller counter is taken in
\* the form it is written in.
FirstFree(name, d, form) ==
    /\ DigitsValue(d) >= 1
    /\ d = Written(form, DigitsValue(d))
    /\ Append(name, d) \notin _auto_names
    /\ \A m \in 1..(DigitsValue(d) - 1) :
          Append(name, Written(form, m)) \in _auto_names

\* C15 as stated: the returned names are pairwise distinct and in the
\* registry; the first request for a name returns it unchanged; a repeated
\* request returns the name with the first free two-digit suffix.
C15_UniqueTwoDigitSuffix ==
    [][UniqStep =>
          LET name == uniqCall'[1]
              rtnName == uniqCall'[2]
          IN  /\ rtnName \notin uniqLog.returned
              /\ rtnName \in _auto_names'
              /\ name \notin uniqLog.requested => rtnName = name
              /\ name \in uniqLog.requested =>
                     /\ Len(rtnName) = Len(name) + 1
                     /\ SubSeq(rtnName, 1, Len(name)) = name
                     /\ FirstFree(name, rtnName[Len(rtnName)], "two")]_vars

\* C15, amended: the returned names are pairwise distinct and in the
\* registry; a request for a name that is not in the registry returns it
\* unchanged; a request for a name that is in the registry returns the
\* name with the first free suffix, the counter being written with at
\* least two digits.
C15_UniqueSuffix ==
    [][UniqStep =>
          LET name == uniqCall'[1]
              rtnName == uniqCall'[2]
          IN  /\ rtnName \notin uniqLog.returned
              /\ rtnName \in _auto_names'
              /\ name \notin _auto_names => rtnName = name
              /\ name \in _auto_names =>
                     /\ Len(rtnName) = Len(name) + 1
                     /\ SubSeq(rtnName, 1, Len(name)) = name
                     /\ FirstFree(name, rtnName[Len(rtnName)], "padded")]_vars

\* C15 witness: the hundred-and-first request for the same name.
C15_Witness ==
    /\ uniqLog.n >= 101
    /\ uniqCall = <<<<"taskFun">>, <<"taskFun", <<1, 0, 0>>>>>>

\* ------------------------------------------------------ PypeScatteredTasks
\* A data object given to PypeScatteredTasks: its name, whether it has the
\* attribute nChunk, the value of nChunk (0 where there is none), and
\* whether getScatterTask() / getGatherTask() gives a task.  The
\* dictionary key of an object is its name.
ScatObjs(names) ==
    [name : names, chunked : {FALSE}, nChunk : {0}, hasTask : {FALSE}]
        \cup [name : names, chunked : {TRUE}, nChunk : 1..ScatMaxChunk,
              hasTask : BOOLEAN]

\* dict.items(): the entries of a dictionary over `names` in the order the
\* iteration gives them, any order.
ScatItems(names) ==
    {s \in UNION {[1..k -> ScatObjs(names)] : k \in 0..Cardinality(names)} :
        \A i, j \in DOMAIN s : i # j => s[i].name # s[j].name}

ScatArgSets ==
    [inputDataObjs : ScatItems(InFilesUpTo(ScatNumIn)),
     outputDataObjs : ScatItems(OutFilesUpTo(ScatNumOut))]

\* A reference a sub-task holds: the object itself (chunk -1), or the
\* element i of its getSplittedFiles().
Whole(o) == [obj |-> o.name, chunk |-> -1]
\* Mutant of SplittedFile: every sub-task gets the first chunk.
SplittedFile_First(o, i) == [obj |-> o.name, chunk |-> 0]
SplittedFile(o, i) == [obj |-> o.name, chunk |-> i]

\* Mutant of ChunkCountAgrees: the first chunk count is kept.
ChunkCountAgrees_Always(o, nChunk) == TRUE
\* assert inputDO.nChunk == nChunk
ChunkCountAgrees(o, nChunk) == o.nChunk = nChunk

\* The loop over the inputs, from the state st on: nChunk (empty or one
\* number), the exception raised, the scatter and gather tasks added, the
\* keys of the chunked inputs.
RECURSIVE ScanInputs(_, _)
ScanInputs(items, st) ==
    IF items = << >> \/ st.exc # None THEN st
    ELSE LET o == Head(items) IN
         ScanInputs(Tail(items),
            IF ~o.chunked THEN st
            ELSE IF st.nChunk # << >>
                 THEN IF ChunkCountAgrees(o, st.nChunk[1])
                      THEN [st EXCEPT !.scatteredInput = @ \cup {o.name}]
                      ELSE [st EXCEPT !.exc = "AssertionError"]
                 ELSE [st EXCEPT !.nChunk = <<o.nChunk>>,
                                 !.aux = IF o.hasTask
                                         THEN Append(@, <<"scatter", o.name>>)
                                         ELSE @,
                                 !.scatteredInput = @ \cup {o.name}])

\* The loop over the outputs.
RECURSIVE ScanOutputs(_, _)
ScanOutputs(items, st) ==
    IF items = << >> \/ st.exc # None THEN st
    ELSE LET o == Head(items) IN
         ScanOutputs(Tail(items),
            IF ~o.chunked THEN st
            ELSE IF st.nChunk # << >>
                 THEN IF ChunkCountAgrees(o, st.nChunk[1])
                      THEN [st EXCEPT !.aux = IF o.hasTask
                                              THEN Append(@, <<"gather", o.name>>)
                                              ELSE @]
                      ELSE [st EXCEPT !.exc = "AssertionError"]
                 ELSE [st EXCEPT !.nChunk = <<o.nChunk>>])

\* The state after both loops.
Scanned(a) ==
    ScanOutputs(a.outputDataObjs,
        ScanInputs(a.inputDataObjs,
            [nChunk |-> << >>, exc |-> None, aux |-> << >>,
             scatteredInput |-> {}]))

\* The sub-task of chunk i: its chunk_id, subTaskInput and subTaskOutput
\* by key.
SubTask(a, st, i) ==
    [chunk_id |-> i,
     inputDataObjs |->
        [k \in {a.inputDataObjs[j].name : j \in DOMAIN a.inputDataObjs} |->
            LET o == CHOOSE o \in {a.inputDataObjs[j] : j \in DOMAIN a.inputDataObjs} :
                         o.name = k
            IN  IF k \in st.scatteredInput THEN SplittedFile(o, i) ELSE Whole(o)],
     outputDataObjs |->
        [k \in {a.outputDataObjs[j].name : j \in DOMAIN a.outputDataObjs} |->
            LET o == CHOOSE o \in {a.outputDataObjs[j] : j \in DOMAIN a.outputDataObjs} :
                         o.name = k
            IN  SplittedFile(o, i)]]

\* What PypeScatteredTasks(...)(taskFun) gives: the collection, or the
\* exception.  With no chunked object range(None) raises TypeError; an
\* output without nChunk has no getSplittedFiles; an element of
\* getSplittedFiles() beyond the object's own chunk count does not exist.
\* The data objects are writable.
ScatteredTasks(a) ==
    LET st == Scanned(a) IN
    IF st.exc # None THEN <<"raise", st.exc>>
    ELSE IF st.nChunk = << >> THEN <<"raise", "TypeError">>
    ELSE IF \E j \in DOMAIN a.outputDataObjs : ~a.outputDataObjs[j].chunked
         THEN <<"raise", "AttributeError">>
    ELSE IF \E j \in DOMAIN a.inputDataObjs :
                /\ a.inputDataObjs[j].chunked
                /\ a.inputDataObjs[j].nChunk < st.nChunk[1]
         THEN <<"raise", "IndexError">>
    ELSE IF \E j \in DOMAIN a.outputDataObjs :
                a.outputDataObjs[j].nChunk < st.nChunk[1]
         THEN <<"raise", "IndexError">>
    ELSE <<"tasks", [_tasks |-> [i \in 1..st.nChunk[1] |-> SubTask(a, st, i - 1)],
                     _scatterGatherTasks |-> st.aux]>>

Scatter ==
    /\ ctorRes = << >>
    /\ ctorRes' = ScatteredTasks(ctorArgs)
    /\ UNCHANGED <<kind, _status, _queue, _referenceMD5, _codeMD5digest,
                   _compareFunctions, parameters, paramDicts, runFlag,
                   flagTick, tsFlag, ctorArgs>>
    /\ UNCHANGED fsVars
    /\ UNCHANGED callVars
    /\ UNCHANGED nonCtorVars

InitScatter ==
    /\ NoTask
    /\ NoThreads
    /\ NoClock
    /\ NoNames
    /\ NoRace
    /\ ctorArgs \in ScatArgSets
    /\ ctorRes = << >>

NextScatter == Scatter

SpecScatter == InitScatter /\ [][NextScatter]_vars

\* ---------------------------------------------- claims: PypeScatteredTasks
\* The objects given, inputs and outputs.
ScatGivenIn == {ctorArgs.inputDataObjs[j] : j \in DOMAIN ctorArgs.inputDataObjs}
ScatGivenOut == {ctorArgs.outputDataObjs[j] : j \in DOMAIN ctorArgs.outputDataObjs}
ScatChunked == {o \in ScatGivenIn \cup ScatGivenOut : o.chunked}

\* C16: when some input is chunked and every output is, all with the chunk
\* count N, the collection holds exactly N tasks, the i-th with chunk_id
\* i, with chunk i of every chunked input and of every output and with
\* every other input itself.
C16_OneTaskPerChunk ==
    \A N \in 1..ScatMaxChunk :
        ( /\ ctorRes # << >>
          /\ ScatChunked # {}
          /\ \A o \in ScatChunked : o.nChunk = N
          /\ \A o \in ScatGivenOut : o.chunked )
        => /\ ctorRes[1] = "tasks"
           /\ Len(ctorRes[2]._tasks) = N
           /\ \A i \in 0..(N - 1) :
                 LET task == ctorRes[2]._tasks[i + 1] IN
                 /\ task.chunk_id = i
                 /\ DOMAIN task.inputDataObjs = {o.name : o \in ScatGivenIn}
                 /\ DOMAIN task.outputDataObjs = {o.name : o \in ScatGivenOut}
                 /\ \A o \in ScatGivenIn :
                       task.inputDataObjs[o.name] =
                           [obj |-> o.name, chunk |-> IF o.chunked THEN i ELSE -1]
                 /\ \A o \in ScatGivenOut :
                       task.outputDataObjs[o.name] = [obj |-> o.name, chunk |-> i]

\* C16 witness: three tasks, each with the input itself and its own chunk
\* of the output.
C16_Witness ==
    /\ ctorRes # << >> /\ ctorRes[1] = "tasks"
    /\ Len(ctorRes[2]._tasks) = 3
    /\ \E o \in ScatGivenIn : ~o.chunked
    /\ \E o \in ScatGivenOut :
          ctorRes[2]._tasks[3].outputDataObjs[o.name].chunk = 2

\* C17: when two chunked objects declare different chunk counts,
\* PypeScatteredTasks raises AssertionError and gives no collection.
C17_MismatchIsFatal ==
    ( /\ ctorRes # << >>
      /\ \E o, q \in ScatChunked : o.nChunk # q.nChunk )
    => ctorRes = <<"raise", "AssertionError">>

\* C17 witness: the input and the output disagree, and AssertionError was
\* raised.
C17_Witness ==
    /\ ctorRes = <<"raise", "AssertionError">>
    /\ \E o \in ScatGivenIn, q \in ScatGivenOut :
          o.chunked /\ q.chunked /\ o.nChunk < q.nChunk

\* -------------------------------------------------------- PypeFOFNMapTasks
\* A line of the manifest is a sequence of characters, without its line
\* end; " " stands for any white space.
FofnChars == {" ", "a"}
FofnLines == UNION {[1..n -> FofnChars] : n \in 0..FofnMaxLineLen}
FofnArgSets ==
    [lines : UNION {[1..n -> FofnLines] : n \in 0..FofnMaxLines},
     outTemplateFunc : {"suffix", "constant"}]

\* The file FOFNFileName.
FOFNFileName == <<"file.fofn">>

\* Mutant of Strip: the line is taken as it is.
Strip_Nothing(fn) == fn

\* fn.strip()
RECURSIVE Strip(_)
Strip(fn) ==
    IF fn = << >> THEN fn
    ELSE IF Head(fn) = " " THEN Strip(Tail(fn))
    ELSE IF fn[Len(fn)] = " " THEN Strip(SubSeq(fn, 1, Len(fn) - 1))
    ELSE fn

\* outTemplateFunc(fn), a function of the caller.
OutTemplate(g, fn) == IF g = "suffix" THEN fn \o <<".out">> ELSE <<"constant">>

\* The task of one line.  The fingerprint of the code is that of taskFun.
FofnLineTask(g, fn) ==
    [inputDataObjs |-> [key \in {"in_f"} |-> fn],
     outputDataObjs |-> [key \in {"out_f"} |-> OutTemplate(g, fn)],
     URL |-> <<"task", "md5", fn>>,
     _codeMD5digest |-> "md5a",
     _compareFunctions |-> <<"timeStampCompare">>]

\* The loop over the lines of the manifest: the tasks added.
RECURSIVE FofnLoop(_, _, _)
FofnLoop(g, lines, tasks) ==
    IF lines = << >> THEN tasks
    ELSE IF Len(Strip(Head(lines))) = 0 THEN FofnLoop(g, Tail(lines), tasks)
    ELSE FofnLoop(g, Tail(lines), Append(tasks, FofnLineTask(g, Strip(Head(lines)))))

\* The task built from pseudoScatterTask: no code fingerprint is passed,
\* and the only predicate returns False.
PseudoScatterTask(tasks) ==
    [inputDataObjs |-> [key \in {"FOFNin"} |-> FOFNFileName],
     outputDataObjs |-> [i \in 0..(Len(tasks) - 1) |-> tasks[i + 1].inputDataObjs["in_f"]],
     URL |-> <<"task", "pseudoScatterTask">> \o FOFNFileName,
     _codeMD5digest |-> "",
     _compareFunctions |-> <<"never">>]

\* What PypeFOFNMapTasks(...)(taskFun) gives.
FOFNMapTasks(a) ==
    LET tasks == FofnLoop(a.outTemplateFunc, a.lines, << >>) IN
    <<"tasks", [_tasks |-> Append(tasks, PseudoScatterTask(tasks)),
                _scatterGatherTasks |-> << >>]>>

FofnMap ==
    /\ ctorRes = << >>
    /\ ctorRes' = FOFNMapTasks(ctorArgs)
    /\ UNCHANGED <<kind, _status, _queue, _referenceMD5, _codeMD5digest,
                   _compareFunctions, parameters, paramDicts, runFlag,
                   flagTick, tsFlag, ctorArgs>>
    /\ UNCHANGED fsVars
    /\ UNCHANGED callVars
    /\ UNCHANGED nonCtorVars

InitFofn ==
    /\ NoTask
    /\ NoThreads
    /\ NoClock
    /\ NoNames
    /\ NoRace
    /\ ctorArgs \in FofnArgSets
    /\ ctorRes = << >>

NextFofn == FofnMap

SpecFofn == InitFofn /\ [][NextFofn]_vars

\* The aggregation task of a manifest of k lines, after construction: its
\* input is the manifest, file <<"in", 1>>, its outputs are the k listed
\* files, files <<"out", 1>> to <<"out", k>>, any of them there or not and
\* of any age.
InitAgg ==
    /\ InitTask
    /\ kind = "PypeTaskBase"
    /\ \E k \in 0..FlagNumOut :
         LET agg == PseudoScatterTask([i \in 1..k |->
                        FofnLineTask("suffix", <<"a", i>>)]) IN
         /\ _codeMD5digest = agg._codeMD5digest
         /\ _compareFunctions = agg._compareFunctions
         /\ inputDicts = [d \in DictIds |-> IF d = 1 THEN InFilesUpTo(1) ELSE {}]
         /\ outputDataObjs = OutFilesUpTo(Cardinality(DOMAIN agg.outputDataObjs))
         /\ InitFiles(InFilesUpTo(1), OutFilesUpTo(k), FlagMaxTS)

NextAgg ==
    \/ \E md5Str \in Digests : SetReferenceMD5(md5Str)
    \/ GetRunFlag

SpecAgg == InitAgg /\ [][NextAgg]_vars

\* ------------------------------------------------ claims: PypeFOFNMapTasks
\* A line that is not blank, and the file it lists: the line from its
\* first to its last character that is not white space.
NonBlank(line) == \E i \in DOMAIN line : line[i] # " "
Listed(line) ==
    LET ink == {i \in DOMAIN line : line[i] # " "}
        first == CHOOSE i \in ink : \A j \in ink : i <= j
        last == CHOOSE i \in ink : \A j \in ink : j <= i
    IN  SubSeq(line, first, last)

\* C18: for a manifest with k non-blank lines the collection holds k + 1
\* tasks: one per non-blank line, in order, from the listed file (in_f)
\* to the file the mapping function names (out_f), then the aggregation
\* task from the manifest to the k listed files.
C18_OneTaskPerLinePlusOne ==
    ctorRes # << >> =>
        LET nb == SelectSeq(ctorArgs.lines, NonBlank)
            k == Len(nb)
            tasks == ctorRes[2]._tasks
        IN  /\ ctorRes[1] = "tasks"
            /\ Len(tasks) = k + 1
            /\ \A i \in 1..k :
                  /\ DOMAIN tasks[i].inputDataObjs = {"in_f"}
                  /\ tasks[i].inputDataObjs["in_f"] = Listed(nb[i])
                  /\ DOMAIN tasks[i].outputDataObjs = {"out_f"}
                  /\ tasks[i].outputDataObjs["out_f"] =
                         IF ctorArgs.outTemplateFunc = "suffix"
                         THEN Listed(nb[i]) \o <<".out">> ELSE <<"constant">>
            /\ DOMAIN tasks[k + 1].inputDataObjs = {"FOFNin"}
            /\ tasks[k + 1].inputDataObjs["FOFNin"] = FOFNFileName
            /\ Cardinality(DOMAIN tasks[k + 1].outputDataObjs) = k
            /\ \A i \in 1..k :
                  \E key \in DOMAIN tasks[k + 1].outputDataObjs :
                      tasks[k + 1].outputDataObjs[key] = Listed(nb[i])
            /\ \A key \in DOMAIN tasks[k + 1].outputDataObjs :
                  \E i \in 1..k : tasks[k + 1].outputDataObjs[key] = Listed(nb[i])

\* C18 witness: a blank line, then a line with white space around its
\* name: two tasks.
C18_Witness ==
    /\ ctorRes # << >>
    /\ Len(ctorArgs.lines) = 2
    /\ ctorArgs.lines[1] = <<" ">>
    /\ ctorArgs.lines[2] = <<" ", "a">>
    /\ Len(ctorRes[2]._tasks) = 2
    /\ ctorRes[2]._tasks[1].inputDataObjs["in_f"] = <<"a">>

\* C19: the aggregation task is never reported stale: every _getRunFlag
\* returns false, whatever the files and after any setReferenceMD5.
C19_AggregationNeverStale == runFlag # << >> => runFlag = <<FALSE>>

\* ---------------------------------------------------------------- PypeTask
\* A function given to PypeTask: the object (its address, which repr
\* shows), its source text, and whether inspect.getsource can read it.
\* All are named foo.
FpFuns ==
    {[addr |-> 1, source |-> "srcA", readable |-> TRUE],
     [addr |-> 2, source |-> "srcA", readable |-> TRUE],
     [addr |-> 3, source |-> "srcB", readable |-> TRUE],
     [addr |-> 4, source |-> "srcA", readable |-> FALSE],
     [addr |-> 5, source |-> "srcB", readable |-> FALSE]}

\* The keyword arguments: URL, given or not (the empty sequence), and the
\* rest of the configuration.
FpConfigs == [URL : {<< >>, <<"task://u">>}, parameters : {"p1", "p2"}]

\* hashlib.md5(...).hexdigest(), of a source text and of a repr: equal
\* fingerprints only for equal texts.
Md5Source(src) == IF src = "srcA" THEN "md5a" ELSE "md5b"
Md5Repr(r) == <<"md5", r>>

\* kwargv["URL"] after line 534.
TaskURLOf(cfg) ==
    IF cfg.URL = << >> THEN <<"task://", "file">> \o UniqueName(<<"foo">>)
    ELSE cfg.URL

\* kwargv["_codeMD5digest"]: "" when the source cannot be read.
CodeMD5digest(fun) == IF fun.readable THEN Md5Source(fun.source) ELSE ""

\* kwargv["_paramMD5digest"]: the fingerprint of repr(kwargv), which by
\* then holds _taskFun, URL and _codeMD5digest next to the configuration.
ParamMD5digest(fun, cfg) ==
    Md5Repr(<<fun.addr, TaskURLOf(cfg), CodeMD5digest(fun), cfg.parameters>>)

\* PypeTask(**cfg)(fun)
PypeTaskCall(fun, cfg) ==
    /\ Len(ctorRes) < FpMaxTasks
    /\ ctorArgs' = Append(ctorArgs, [fun |-> fun, cfg |-> cfg])
    /\ ctorRes' = Append(ctorRes, [URL |-> TaskURLOf(cfg),
                                   _codeMD5digest |-> CodeMD5digest(fun),
                                   _paramMD5digest |-> ParamMD5digest(fun, cfg)])
    /\ _auto_names' = IF cfg.URL = << >>
                      THEN _auto_names \cup {UniqueName(<<"foo">>)}
                      ELSE _auto_names
    /\ UNCHANGED <<kind, _status, _queue, _referenceMD5, _codeMD5digest,
                   _compareFunctions, parameters, paramDicts, runFlag,
                   flagTick, tsFlag, uniqCall, uniqLog>>
    /\ UNCHANGED fsVars
    /\ UNCHANGED callVars
    /\ UNCHANGED <<threadVars, idemVars, raceVars>>

InitFp ==
    /\ NoTask
    /\ NoThreads
    /\ NoCtor
    /\ NoClock
    /\ NoNames
    /\ NoRace

NextFp == \E fun \in FpFuns, cfg \in FpConfigs : PypeTaskCall(fun, cfg)

SpecFp == InitFp /\ [][NextFp]_vars

\* -------------------------------------------------------- claims: PypeTask
\* C20: two tasks from the same source text and the same configuration
\* have equal code fingerprints and equal parameter fingerprints; a
\* different configuration gives a different parameter fingerprint, a
\* different source a different code fingerprint.
C20_FingerprintsFollowSourceAndConfig ==
    \A i, j \in DOMAIN ctorRes :
        /\ (ctorArgs[i].fun.source = ctorArgs[j].fun.source
               /\ ctorArgs[i].cfg = ctorArgs[j].cfg)
           => /\ ctorRes[i]._codeMD5digest = ctorRes[j]._codeMD5digest
              /\ ctorRes[i]._paramMD5digest = ctorRes[j]._paramMD5digest
        /\ ctorArgs[i].cfg # ctorArgs[j].cfg
           => ctorRes[i]._paramMD5digest # ctorRes[j]._paramMD5digest
        /\ ctorArgs[i].fun.source # ctorArgs[j].fun.source
           => ctorRes[i]._codeMD5digest # ctorRes[j]._codeMD5digest

SetOutputs(d) ==
    /\ ctorRes # << >>
    /\ ctorRes[1] = "task"
    /\ ctorRes[2].outputDataObjs # d
    /\ ctorRes' = <<"task", [ctorRes[2] EXCEPT !.outputDataObjs = d]>>
    /\ UNCHANGED <<kind, _status, _queue, _referenceMD5, _codeMD5digest,
                   _compareFunctions, parameters, paramDicts, runFlag,
                   flagTick, tsFlag, ctorArgs>>
    /\ UNCHANGED fsVars
    /\ UNCHANGED callVars
    /\ UNCHANGED nonCtorVars

NextLate ==
    \/ Construct
    \/ \E d \in CtorDicts : SetOutputs(d)

SpecLate == InitCtor /\ [][NextLate]_vars

\* C22: no task that exists has a read-only object among its declared
\* outputs, after its construction and after any setOutputs.
C22_NoReadOnlyOutput ==
    (ctorRes # << >> /\ ctorRes[1] = "task")
        => \A o \in DictValues(ctorRes[2].outputDataObjs) : ~ctorArgs.readOnly[o]

\* -------------------------------------------------- _unique_name, threads
\* Every thread of Threads calls _unique_name('taskFun') RaceMaxCalls
\* times.  No lock is taken anywhere in _unique_name: a thread may be
\* switched out between any two of the steps below.

\* What a step inside _unique_name leaves alone.
RaceFrame ==
    /\ UNCHANGED <<kind, _status, _queue, _referenceMD5, _codeMD5digest,
                   _compareFunctions, parameters, paramDicts, runFlag,
                   flagTick, tsFlag, uniqCall, uniqLog>>
    /\ UNCHANGED fsVars
    /\ UNCHANGED callVars
    /\ UNCHANGED <<threadVars, ctorVars, idemVars>>

\* if name in _auto_names: n = 0, else on to the add.
UniqTest(t) ==
    /\ upc[t] = "test"
    /\ upc' = [upc EXCEPT ![t] = IF ulocal[t].name \in _auto_names
                                 THEN "loop" ELSE "add"]
    /\ ulocal' = [ulocal EXCEPT ![t].n = 0]
    /\ UNCHANGED _auto_names
    /\ RaceFrame

\* One round of the while loop: n += 1, try_name, the membership test,
\* and name = try_name after the break.
UniqLoop(t) ==
    /\ upc[t] = "loop"
    /\ IF TryName(ulocal[t].name, ulocal[t].n + 1) \notin _auto_names
       THEN /\ ulocal' = [ulocal EXCEPT ![t].n = @ + 1,
                              ![t].name = TryName(ulocal[t].name, ulocal[t].n + 1)]
            /\ upc' = [upc EXCEPT ![t] = "add"]
       ELSE /\ ulocal' = [ulocal EXCEPT ![t].n = @ + 1]
            /\ UNCHANGED upc
    /\ UNCHANGED _auto_names
    /\ RaceFrame

\* _auto_names.add(name); return name.  The thread then makes its next
\* call, if it has one left.
UniqAdd(t) ==
    /\ upc[t] = "add"
    /\ _auto_names' = _auto_names \cup {ulocal[t].name}
    /\ ulocal' = [ulocal EXCEPT ![t].got = Append(@, ulocal[t].name),
                                ![t].name = <<"taskFun">>,
                                ![t].n = 0]
    /\ upc' = [upc EXCEPT ![t] = IF Len(ulocal[t].got) + 1 < RaceMaxCalls
                                 THEN "test" ELSE "done"]
    /\ RaceFrame

InitRace ==
    /\ NoTask
    /\ NoThreads
    /\ NoCtor
    /\ NoClock
    /\ NoNames
    /\ upc = [t \in Threads |-> "test"]
    /\ ulocal = [t \in Threads |-> [name |-> <<"taskFun">>, n |-> 0, got |-> << >>]]

NextRace ==
    \/ \E t \in Threads : UniqTest(t)
    \/ \E t \in Threads : UniqLoop(t)
    \/ \E t \in Threads : UniqAdd(t)

SpecRace == InitRace /\ [][NextRace]_vars

\* C23: in every interleaving, no two calls of _unique_name obtain the
\* same name.
C23_NoNameObtainedTwice ==
    \A t, u \in Threads :
        \A i \in DOMAIN ulocal[t].got, j \in DOMAIN ulocal[u].got :
            (t # u \/ i # j) => ulocal[t].got[i] # ulocal[u].got[j]

\* ------------------------------------------- configured constructors, reuse
\* The callables returned by PypeTask(...) with no URL given: each keeps
\* the dictionary kwargv of that call; ctorArgs holds kwargv["URL"] of
\* each, the empty sequence while there is none.
ReuseCtors == {1, 2}
ReuseFunNames == {"foo", "bar"}

\* "task://" + inspect.getfile(taskFun) + "/" + _unique_name(name)
AutoTaskURL(file, name) == <<"task://", file>> \o UniqueName(<<name>>)

\* f(taskFun) of the callable d returned by PypeTask: URL is generated
\* only when kwargv has none, and is stored in kwargv.
PypeTaskApply(d, name) ==
    /\ Len(ctorRes) < ReuseMaxTasks
    /\ IF ctorArgs[d] = << >>
       THEN /\ ctorArgs' = [ctorArgs EXCEPT ![d] = AutoTaskURL("user.py", name)]
            /\ _auto_names' = _auto_names \cup {UniqueName(<<name>>)}
       ELSE UNCHANGED <<ctorArgs, _auto_names>>
    /\ ctorRes' = Append(ctorRes, [URL |-> ctorArgs'[d], by |-> <<"PypeTask", d>>])
    /\ UNCHANGED <<kind, _status, _queue, _referenceMD5, _codeMD5digest,
                   _compareFunctions, parameters, paramDicts, runFlag,
                   flagTick, tsFlag, uniqCall, uniqLog>>
    /\ UNCHANGED fsVars
    /\ UNCHANGED callVars
    /\ UNCHANGED <<threadVars, idemVars, raceVars>>

\* f(scriptToRun) of a callable returned by PypeShellTask or
\* PypeDistributibleTask: it calls PypeTask(*argv, **kwargv)(taskFun), so
\* PypeTask gets a dictionary of its own at every application, with no
\* URL in it.
ShellTaskApply ==
    /\ Len(ctorRes) < ReuseMaxTasks
    /\ _auto_names' = _auto_names \cup {UniqueName(<<"taskFun">>)}
    /\ ctorRes' = Append(ctorRes, [URL |-> AutoTaskURL("task.py", "taskFun"),
                                   by |-> <<"PypeShellTask", 0>>])
    /\ UNCHANGED ctorArgs
    /\ UNCHANGED <<kind, _status, _queue, _referenceMD5, _codeMD5digest,
                   _compareFunctions, parameters, paramDicts, runFlag,
                   flagTick, tsFlag, uniqCall, uniqLog>>
    /\ UNCHANGED fsVars
    /\ UNCHANGED callVars
    /\ UNCHANGED <<threadVars, idemVars, raceVars>>

InitReuse ==
    /\ NoTask
    /\ NoThreads
    /\ NoClock
    /\ NoNames
    /\ NoRace
    /\ ctorArgs = [d \in ReuseCtors |-> << >>]
    /\ ctorRes = << >>

NextReuse ==
    \/ \E d \in ReuseCtors, name \in ReuseFunNames : PypeTaskApply(d, name)
    \/ ShellTaskApply

SpecReuse == InitReuse /\ [][NextReuse]_vars

\* C24: the tasks built without an explicit URL have pairwise distinct
\* URLs, also when one configured constructor builds several.
C24_AutoURLsDistinct ==
    \A i, j \in DOMAIN ctorRes : i # j => ctorRes[i].URL # ctorRes[j].URL

\* ------------------------------- claims: PypeScatteredTasks, auxiliary tasks
\* The places of the task x in the auxiliary list.
AuxPlaces(x) ==
    {i \in DOMAIN ctorRes[2]._scatterGatherTasks :
        ctorRes[2]._scatterGatherTasks[i] = x}

\* C25: the auxiliary list of the collection holds the scatter task of
\* every chunked input that has one and the gather task of every chunked
\* output that has one, each once, at most one scatter task and at most
\* one gather task, in the order they are met (inputs first).
C25_AuxiliaryTasksCollected ==
    (ctorRes # << >> /\ ctorRes[1] = "tasks") =>
        LET aux == ctorRes[2]._scatterGatherTasks IN
        /\ \A o \in ScatGivenIn :
              (o.chunked /\ o.hasTask) =>
                  Cardinality(AuxPlaces(<<"scatter", o.name>>)) = 1
        /\ \A o \in ScatGivenOut :
              (o.chunked /\ o.hasTask) =>
                  Cardinality(AuxPlaces(<<"gather", o.name>>)) = 1
        /\ Cardinality({i \in DOMAIN aux : aux[i][1] = "scatter"}) <= 1
        /\ Cardinality({i \in DOMAIN aux : aux[i][1] = "gather"}) <= 1
        /\ \A i, j \in DOMAIN aux :
              (aux[i][1] = "scatter" /\ aux[j][1] = "gather") => i < j

\* ------------------------------------------------- shell and grid forms
\* The constructor that built the task, kept in ctorArgs.
Forms == {"PypeShellTask", "PypeSGETask", "PypeDistributibleTask"}

\* inspect.getargspec of the function taskFun each form defines:
\* taskFun(self) in PypeShellTask and PypeDistributibleTask, taskFun() in
\* PypeSGETask.
ArgSpec(form) ==
    [args |-> IF form = "PypeSGETask" THEN << >> ELSE <<"self">>,
     varargs |-> FALSE, varkw |-> FALSE, defaults |-> 0]

\* The number of positional arguments _runTask passes to _taskFun, being
\* called with nargv of its own: self and argv when the function takes
\* **kw, *args or arguments with defaults, self alone otherwise.
Positionals(argspec, nargv) ==
    IF argspec.varkw THEN 1 + nargv
    ELSE IF argspec.varargs THEN 1 + nargv
    ELSE IF Len(argspec.args) # 0 /\ argspec.defaults # 0 THEN 1 + nargv
    ELSE 1

\* Python raises TypeError when more positional arguments are passed than
\* the function names and it has no *args.
BindingError(argspec, nargv) ==
    ~argspec.varargs /\ Positionals(argspec, nargv) > Len(argspec.args)

\* _runTask calls the function of the form, which runs the script through
\* the shell or through qsub -sync y; the script writes the files
\* `created` among the declared outputs.  run() passes the task itself as
\* the one element of argv.
FormTaskFun(created) ==
    /\ pc = "taskFun"
    /\ IF BindingError(ArgSpec(ctorArgs.form), 1)
       THEN /\ raised' = "TypeError"
            /\ UNCHANGED exists
       ELSE /\ raised' = None
            /\ exists' = [f \in Files |-> exists[f] \/ f \in created]
    /\ mutated' = FALSE
    /\ pc' = "check"
    /\ UNCHANGED <<kind, _status, _queue, _referenceMD5, _codeMD5digest,
                   _compareFunctions, inputDataObjs, outputDataObjs,
                   parameters, inputDicts, paramDicts, timeStamp,
                   snapInputs, snapParameters, runExc, staleAtCall,
                   trapped, rtn, runFlag, flagTick, tsFlag>>
    /\ UNCHANGED extVars

InitForms ==
    /\ InitCore
    /\ _queue = None
    /\ NoThreads
    /\ NoClock
    /\ NoNames
    /\ NoRace
    /\ ctorArgs \in [form : Forms]
    /\ ctorRes = << >>
    /\ kind = "PypeTaskBase"
    /\ _codeMD5digest = "md5a"
    /\ _compareFunctions = <<"timeStampCompare">>
    /\ \E n \in 0..NumIn, m \in 0..NumOut :
         /\ inputDicts = [d \in DictIds |-> IF d = 1 THEN InFilesUpTo(n) ELSE {}]
         /\ outputDataObjs = OutFilesUpTo(m)
         /\ InitFiles(InFilesUpTo(n), OutFilesUpTo(m), 0)

NextForms ==
    \/ Call
    \/ \E created \in SUBSET outputDataObjs : FormTaskFun(created)
    \/ RunEnd
    \/ CallEnd
    \/ \E f \in Files : RemoveOutput(f)

SpecForms == InitForms /\ [][NextForms]_vars

\* ------------------------------------------- claims: shell and grid forms
\* C26: a run of a task built by the grid-engine form goes as a run of a
\* task built by the shell form: the function is invoked without a
\* binding error, run() then sets the status Done when every declared
\* output exists and Fail when one is missing, and the call returns.
C26_GridFormRunsLikeShellForm ==
    [][/\ (pc = "check" /\ pc' = "afterRun") =>
             /\ raised # "TypeError"
             /\ _status' = (IF \A o \in outputDataObjs : exists[o]
                            THEN TaskDone ELSE TaskFail)
       /\ (pc = "afterRun" /\ pc' = "idle") => rtn'[1] = "return"]_vars

====
